---- MODULE Spec2Model ----
(***************************************************************************)
(* The quantum402 micropayment gateway (src/server): the settle handler,   *)
(* the receipt verifier, the resource guard, the nonce ledger and the      *)
(* receipt archive, as one state machine.                                  *)
(*                                                                         *)
(* Cryptography is symbolic.  A byte string is a record                    *)
(* [len, key, msg]: a public key of pair k is [len |-> 32, key |-> k,      *)
(* msg |-> ""], a detached signature made with the secret key of pair k    *)
(* over message m is [len |-> 64, key |-> k, msg |-> m].  A verification   *)
(* answers "true", "false" or "throw" (the JavaScript call raised).        *)
(* A JSON string field that carries base64 text is [enc, data]: enc is     *)
(* "base64" for text that toB64 produced, "undefined" for an absent field. *)
(***************************************************************************)
EXTENDS Integers, Sequences, FiniteSets, TLC

VARIABLES
    now,         \* Math.floor(Date.now() / 1000), the server clock
    usedNonces,  \* storage.js:2, Map nonce -> expireAt
    receipts,    \* storage.js:1, the archive, most recent first
    inflight,    \* settle handlers suspended at their await
    issued,      \* the invoices POST /api/invoice has handed out
    last         \* what the last step answered, if it answered

vars == <<now, usedNonces, receipts, inflight, issued, last>>

----------------------------------------------------------------------------
(* Bounds of the model *)

MaxTime == 2
MaxSettles == 2
MaxIssuedReceipts == 1
MaxIssuedInvoices == 2
MaxRemembered == 502
MaxProofSettles == 1
MaxExpiry == 3
MaxGatewayInvoices == 1
MaxGatewaySettles == 1
MaxFlagSettles == 2

(* Input domains *)

Nonces == {"n1", "n2"}
Features == {"api.translate", "api.other"}
Ttls == {1, 2}
IssueTimes == {0, 1}

GatewayKey == "gateway"
ForeignKey == "mallory"

----------------------------------------------------------------------------
(* src/server/verify.js, second half (crypto): encodings and signatures *)

NoBytes == [len |-> 0, key |-> "", msg |-> ""]

PublicKeyOf(k) == [len |-> 32, key |-> k, msg |-> ""]

toB64(u8) == [enc |-> "base64", data |-> u8]

Undefined == [enc |-> "undefined", data |-> NoBytes]

\* Buffer.from(s, 'base64'): raises a TypeError when s is undefined
CanDecode(s) == s.enc = "base64"

fromB64(s) == s.data

\* nacl.sign.detached(msg, secretKey)
NaclSign(msgStr, secretKey) == [len |-> 64, key |-> secretKey, msg |-> msgStr]

\* nacl.sign.detached.verify(msg, sig, publicKey): raises on a signature
\* that is not 64 bytes or a public key that is not 32 bytes
NaclVerify(msgStr, sig, pub) ==
    IF sig.len # 64 \/ pub.len # 32 THEN "throw"
    ELSE IF sig.key = pub.key /\ sig.msg = msgStr THEN "true" ELSE "false"

signGateway(msgStr, secretKey) == toB64(NaclSign(msgStr, secretKey))

\* the base64 text handed to nacl as if it were the signature bytes
verifyGatewayUndecoded(msgStr, sigB64, publicKeyU8) ==
    NaclVerify(msgStr, [len |-> 88, key |-> "", msg |-> ""], publicKeyU8)

verifyGateway(msgStr, sigB64, publicKeyU8) ==
    IF ~CanDecode(sigB64) THEN "throw"
    ELSE NaclVerify(msgStr, fromB64(sigB64), publicKeyU8)

gatewayPubB64 == toB64(PublicKeyOf(GatewayKey))

----------------------------------------------------------------------------
(* src/server/index.js: helpers *)

isFreshStrict(ts, ttl) == (now - ts) < ttl

isFresh(ts, ttl) == (now - ts) <= ttl

messageFromInvoice(inv) ==
    inv.feature \o "|" \o inv.amount \o "|" \o inv.unit \o "|" \o
    inv.nonce \o "|" \o inv.merkleId \o "|" \o ToString(inv.ts)

messageFromReceipt(rcpt) ==
    rcpt.feature \o "|" \o rcpt.amount \o "|" \o rcpt.unit \o "|" \o
    rcpt.nonce \o "|" \o rcpt.merkleId \o "|" \o ToString(rcpt.ts)

----------------------------------------------------------------------------
(* src/server/storage.js *)

\* the capacity of the archive (storage.js:4)
ArchiveCapacity == 500

\* receipts.shift() in place of receipts.pop(): the newest is dropped
rememberReceiptShift(archive, r) ==
    IF Len(archive) + 1 > ArchiveCapacity THEN archive
    ELSE <<r>> \o archive

rememberReceipt(archive, r) ==
    IF Len(archive) + 1 > ArchiveCapacity THEN SubSeq(<<r>> \o archive, 1, Len(archive))
    ELSE <<r>> \o archive

\* usedNonces.set guarded by !usedNonces.has(nonce): a record is never
\* overwritten
markNonceOnce(ledger, nonce, expireAt) ==
    [n \in DOMAIN ledger \cup {nonce} |->
        IF n \in DOMAIN ledger THEN ledger[n] ELSE expireAt]

markNonce(ledger, nonce, expireAt) ==
    [n \in DOMAIN ledger \cup {nonce} |->
        IF n = nonce THEN expireAt ELSE ledger[n]]

\* !!exp is false for a missing entry and for an expiry of 0
seenNonceIn(ledger, nonce) ==
    /\ nonce \in DOMAIN ledger
    /\ ledger[nonce] # 0
    /\ ledger[nonce] >= now

seenNonce(nonce) == seenNonceIn(usedNonces, nonce)

\* the eviction with exp <= now in place of exp < now
cleanupNoncesInclusive(ledger) ==
    [n \in {k \in DOMAIN ledger : ~(ledger[k] <= now)} |-> ledger[n]]

cleanupNonces(ledger) ==
    [n \in {k \in DOMAIN ledger : ~(ledger[k] < now)} |-> ledger[n]]

----------------------------------------------------------------------------
(* src/server/verify.js, first half: wallet proofs *)

\* bs58.decode(account): raises unless the text is a base58 public key
Base58Accounts == {"alice"}

bs58Decode(account) == PublicKeyOf(account)

\* String.prototype.toLowerCase on the account strings of the model
toLowerCase(a) == IF a = "0xAB" THEN "0xab" ELSE a

\* ethers.verifyMessage(message, signature): raises on a malformed
\* signature, else recovers the address that signed that message; a
\* signature over another message recovers an unrelated address
EvmCanRecover(sig) == sig.enc = "base64" /\ sig.data.len = 65

EvmRecover(message, sig) ==
    IF sig.data.msg = message THEN sig.data.key ELSE "0xCD"

\* ethers.getBytes(message) accepts a string only when it is 0x-prefixed
\* hex; a canonical message always holds the delimiter "|", so it raises
getBytesRaises(message) == TRUE

\* the verifier without its try/catch, a raise counted as a pass
verifySolanaMessageUncaught(message, signatureBase64, account) ==
    NaclVerify(message, fromB64(signatureBase64), bs58Decode(account)) # "false"

verifySolanaMessage(message, signatureBase64, account) ==
    IF account \notin Base58Accounts THEN FALSE
    ELSE IF ~CanDecode(signatureBase64) THEN FALSE
    ELSE NaclVerify(message, fromB64(signatureBase64), bs58Decode(account)) = "true"

verifyEvmMessage(message, signatureHex, account) ==
    LET first == /\ EvmCanRecover(signatureHex)
                 /\ account # ""
                 /\ toLowerCase(EvmRecover(message, signatureHex)) = toLowerCase(account)
        second == /\ ~getBytesRaises(message)
                  /\ EvmCanRecover(signatureHex)
                  /\ account # ""
                  /\ toLowerCase(EvmRecover(message, signatureHex)) = toLowerCase(account)
    IN  first \/ second

----------------------------------------------------------------------------
(* Requests *)

InvoicesFor(features, nonces) ==
    [feature : features, amount : {"0.01"}, unit : {"SOL"}, ttl : Ttls,
     nonce : nonces, merkleId : {"m1"}, ts : IssueTimes]

NoInvoice ==
    [feature |-> "", amount |-> "", unit |-> "", ttl |-> 0,
     nonce |-> "", merkleId |-> "", ts |-> 0]

Garbage == toB64([len |-> 3, key |-> "", msg |-> ""])

\* the wallet proofs a caller may send with invoice inv
WalletProofs(inv) ==
    LET m == messageFromInvoice(inv) IN
    [kind : {"solana"}, account : {"alice"},
     signature : {toB64(NaclSign(m, "alice")), Garbage}]
    \cup
    [kind : {"evm"}, account : {"0xab"},
     signature : {toB64([len |-> 65, key |-> "0xAB", msg |-> "other"])}]
    \cup
    [kind : {"btc"}, account : {"alice"},
     signature : {toB64(NaclSign(m, "alice"))}]

NoProof == [kind |-> "", account |-> "", signature |-> Undefined]

\* what ProofVerifier answers for the proof (index.js:72-86)
verifyProof(msg, walletProof) ==
    IF walletProof.kind = "solana"
    THEN verifySolanaMessage(msg, walletProof.signature, walletProof.account)
    ELSE IF walletProof.kind = "evm"
    THEN verifyEvmMessage(msg, walletProof.signature, walletProof.account)
    ELSE FALSE

Awaits(walletProof) == walletProof.kind \in {"solana", "evm"}

\* the invoice a receipt was issued for
InvoiceOf(r) ==
    [feature |-> r.feature, amount |-> r.amount, unit |-> r.unit, ttl |-> r.ttl,
     nonce |-> r.nonce, merkleId |-> r.merkleId, ts |-> r.ts]

Settled(inv) == \E i \in 1 .. Len(receipts) : InvoiceOf(receipts[i]) = inv

\* the response of POST /api/settle with the request it answers; turn is
\* "call" when the handler answered before any await, "resume" after it;
\* late: a receipt for the identical invoice had been returned when the
\* request arrived; overtaken: another request for the identical invoice
\* returned a receipt while this one was suspended
SettleResponse(turn, status, error, hasInvoice, hasProof, inv, proof, late, overtaken, rcpt) ==
    [op |-> "settle", turn |-> turn, status |-> status, error |-> error,
     hasInvoice |-> hasInvoice, hasProof |-> hasProof,
     invoice |-> inv, walletProof |-> proof,
     late |-> late, overtaken |-> overtaken, receipt |-> rcpt]

----------------------------------------------------------------------------
(* The state machine *)

NoResponse == [op |-> "none", status |-> 0, error |-> ""]

Init ==
    /\ now = 0
    /\ usedNonces = [n \in {} |-> 0]
    /\ receipts = <<>>
    /\ inflight = <<>>
    /\ issued = <<>>
    /\ last = NoResponse

\* no response is waiting to be written out
Idle == last = NoResponse

\* res.json(...) has written the response out
Respond ==
    /\ ~Idle
    /\ last' = NoResponse
    /\ UNCHANGED <<now, usedNonces, receipts, inflight, issued>>

\* the wall clock advances
Tick ==
    /\ Idle
    /\ now < MaxTime
    /\ now' = now + 1
    /\ last' = NoResponse
    /\ UNCHANGED <<usedNonces, receipts, inflight, issued>>

\* POST /api/settle, up to the first await (index.js:64-86).  A request with
\* a solana or evm proof is suspended at its await with the verifier's
\* answer; every other request is answered in the same turn.
Settle(limit, hasInvoice, hasProof, invoice, walletProof) ==
    /\ Idle
    /\ UNCHANGED <<now, usedNonces, receipts, issued>>
    /\ LET late == hasInvoice /\ Settled(invoice)
           Answer(status, error) ==
               /\ last' = SettleResponse("call", status, error, hasInvoice, hasProof, invoice,
                                         walletProof, late, FALSE, <<>>)
               /\ UNCHANGED inflight
       IN  IF ~hasInvoice \/ ~hasProof THEN Answer(400, "missing-body")
           ELSE IF ~isFresh(invoice.ts, invoice.ttl) THEN Answer(400, "expired")
           ELSE IF seenNonce(invoice.nonce) THEN Answer(409, "replay")
           ELSE IF ~Awaits(walletProof) THEN Answer(401, "bad-wallet-proof")
           ELSE /\ Len(receipts) + Len(inflight) < limit
                /\ inflight' = Append(inflight,
                       [invoice |-> invoice, walletProof |-> walletProof,
                        verified |-> verifyProof(messageFromInvoice(invoice), walletProof),
                        late |-> late, overtaken |-> FALSE])
                /\ last' = NoResponse

\* the settle requests callers send for the given invoices, at most limit
\* of them past the replay check (suspended or settled)
SettleRequests(limit, invoices) ==
    \E hasInvoice, hasProof \in BOOLEAN :
    \E invoice \in IF hasInvoice THEN invoices ELSE {NoInvoice} :
    \E walletProof \in IF hasProof THEN WalletProofs(invoice) ELSE {NoProof} :
        Settle(limit, hasInvoice, hasProof, invoice, walletProof)

SettleRequest == SettleRequests(MaxSettles, InvoicesFor({"api.translate"}, Nonces))

\* the receipt of index.js:93-104
MakeReceipt(invoice, walletProof) ==
    LET receipt ==
            [feature |-> invoice.feature, amount |-> invoice.amount,
             unit |-> invoice.unit, ttl |-> invoice.ttl, nonce |-> invoice.nonce,
             merkleId |-> invoice.merkleId, payer |-> walletProof.account,
             gatewayPubkey |-> gatewayPubB64, ts |-> invoice.ts, sig |-> Undefined]
    IN  [receipt EXCEPT !.sig = signGateway(messageFromReceipt(receipt), GatewayKey)]

Without(seq, i) == SubSeq(seq, 1, i - 1) \o SubSeq(seq, i + 1, Len(seq))

\* the handler with markNonce and cleanupNonces moved above the test of
\* `verified`: a rejected proof leaves its nonce in the ledger
SettleResumeMarkFirst(i) ==
    LET p == inflight[i]
        rest == Without(inflight, i)
        receipt == MakeReceipt(p.invoice, p.walletProof)
    IN  /\ Idle
        /\ UNCHANGED <<now, issued>>
        /\ usedNonces' = cleanupNonces(markNonce(usedNonces, p.invoice.nonce,
                                                 p.invoice.ts + p.invoice.ttl))
        /\ inflight' = rest
        /\ IF ~p.verified
           THEN /\ last' = SettleResponse("resume", 401, "bad-wallet-proof", TRUE, TRUE, p.invoice,
                                          p.walletProof, p.late, p.overtaken, <<>>)
                /\ UNCHANGED receipts
           ELSE /\ receipts' = rememberReceipt(receipts, receipt)
                /\ last' = SettleResponse("resume", 200, "", TRUE, TRUE, p.invoice,
                                          p.walletProof, p.late, p.overtaken, <<receipt>>)

\* POST /api/settle, from the await on (index.js:88-107)
SettleResume(i) ==
    LET p == inflight[i]
        rest == Without(inflight, i)
    IN  /\ Idle
        /\ UNCHANGED <<now, issued>>
        /\ IF ~p.verified
           THEN /\ last' = SettleResponse("resume", 401, "bad-wallet-proof", TRUE, TRUE, p.invoice,
                                          p.walletProof, p.late, p.overtaken, <<>>)
                /\ inflight' = rest
                /\ UNCHANGED <<usedNonces, receipts>>
           ELSE LET receipt == MakeReceipt(p.invoice, p.walletProof) IN
                /\ usedNonces' = cleanupNonces(markNonce(usedNonces, p.invoice.nonce,
                                                         p.invoice.ts + p.invoice.ttl))
                /\ receipts' = rememberReceipt(receipts, receipt)
                /\ last' = SettleResponse("resume", 200, "", TRUE, TRUE, p.invoice,
                                          p.walletProof, p.late, p.overtaken, <<receipt>>)
                /\ inflight' =
                       [j \in 1 .. Len(rest) |->
                           IF rest[j].invoice = p.invoice
                           THEN [rest[j] EXCEPT !.overtaken = TRUE] ELSE rest[j]]

SettleContinue == \E i \in 1 .. Len(inflight) : SettleResume(i)

----------------------------------------------------------------------------
(* POST /api/invoice *)

\* a field of the request body: given with a value, or absent
Given(v) == [given |-> TRUE, value |-> v]
AbsentText == [given |-> FALSE, value |-> ""]
AbsentNumber == [given |-> FALSE, value |-> 0]

\* a destructuring default (index.js:46)
OrDefault(field, default) == IF field.given THEN field.value ELSE default

InvoiceBodies ==
    [feature : {AbsentText, Given("a"), Given("a|b")},
     amount : {AbsentText, Given("c"), Given("b|c")},
     unit : {AbsentText},
     ttlSec : {AbsentNumber, Given(1)},
     wallet : {AbsentText}]

\* crypto.randomUUID() and crypto.randomBytes(32): values not handed out before
IssueNonces == {"n1", "n2", "n3"}
FreshNonces == IssueNonces \ {issued[i].nonce : i \in 1 .. Len(issued)}

InvoiceResponse(invoice) ==
    [op |-> "invoice", status |-> 200, error |-> "", invoice |-> invoice,
     messageToSign |-> messageFromInvoice(invoice), gatewayPubkey |-> gatewayPubB64]

\* the issuer reserving the nonce it hands out: markNonce at issue
InvoiceReserving(body, nonce, merkleId) ==
    LET invoice ==
            [feature |-> OrDefault(body.feature, "api.translate"),
             amount |-> OrDefault(body.amount, "0.01"),
             unit |-> OrDefault(body.unit, "SOL"),
             ttl |-> OrDefault(body.ttlSec, 90),
             nonce |-> nonce, merkleId |-> merkleId, ts |-> now,
             wallet |-> OrDefault(body.wallet, "phantom")]
    IN  /\ Idle
        /\ Len(issued) < MaxIssuedInvoices
        /\ issued' = Append(issued, invoice)
        /\ last' = InvoiceResponse(invoice)
        /\ usedNonces' = markNonce(usedNonces, nonce, invoice.ts + invoice.ttl)
        /\ UNCHANGED <<now, receipts, inflight>>

\* POST /api/invoice (index.js:45-62)
Invoice(body, nonce, merkleId) ==
    LET invoice ==
            [feature |-> OrDefault(body.feature, "api.translate"),
             amount |-> OrDefault(body.amount, "0.01"),
             unit |-> OrDefault(body.unit, "SOL"),
             ttl |-> OrDefault(body.ttlSec, 90),
             nonce |-> nonce, merkleId |-> merkleId, ts |-> now,
             wallet |-> OrDefault(body.wallet, "phantom")]
    IN  /\ Idle
        /\ Len(issued) < MaxIssuedInvoices
        /\ issued' = Append(issued, invoice)
        /\ last' = InvoiceResponse(invoice)
        /\ UNCHANGED <<now, usedNonces, receipts, inflight>>

InvoiceRequest ==
    \E body \in InvoiceBodies : \E nonce \in FreshNonces : Invoice(body, nonce, "m1")

----------------------------------------------------------------------------
(* Receipts presented to POST /api/verify and GET /api/translate *)

NoReceipt ==
    [feature |-> "", amount |-> "", unit |-> "", ttl |-> 0, nonce |-> "",
     merkleId |-> "", payer |-> "", gatewayPubkey |-> Undefined, ts |-> 0,
     sig |-> Undefined]

Issued == {receipts[i] : i \in 1 .. Len(receipts)}

\* the receipt fields a holder may rewrite
Fields == {"feature", "amount", "unit", "ttl", "nonce", "merkleId", "payer",
           "gatewayPubkey", "ts", "sig"}

\* the values a holder may write into field f of receipt r
Rewrites(r, f) ==
    CASE f = "feature" -> {[r EXCEPT !.feature = v] : v \in Features}
      [] f = "amount" -> {[r EXCEPT !.amount = "9.99"]}
      [] f = "unit" -> {[r EXCEPT !.unit = "ETH"]}
      [] f = "ttl" -> {[r EXCEPT !.ttl = v] : v \in Ttls \cup {r.ttl + MaxTime}}
      [] f = "nonce" -> {[r EXCEPT !.nonce = v] : v \in Nonces}
      [] f = "merkleId" -> {[r EXCEPT !.merkleId = "m2"]}
      [] f = "payer" -> {[r EXCEPT !.payer = "mallory"]}
      [] f = "gatewayPubkey" ->
             {[r EXCEPT !.gatewayPubkey = v] :
                 v \in {Undefined, Garbage, toB64(PublicKeyOf(ForeignKey))}}
      [] f = "ts" -> {[r EXCEPT !.ts = v] : v \in 0 .. MaxTime}
      [] f = "sig" ->
             {[r EXCEPT !.sig = v] :
                 v \in {Undefined, Garbage,
                        signGateway(messageFromReceipt(r), ForeignKey)}}

\* r with the value of exactly one field changed
Tampered(r) == UNION {Rewrites(r, f) : f \in Fields} \ {r}

\* a receipt made without the gateway: signed with the maker's own key,
\* naming as gatewayPubkey the key pair `claimed`
Forge(inv, claimed) ==
    LET receipt ==
            [feature |-> inv.feature, amount |-> inv.amount, unit |-> inv.unit,
             ttl |-> inv.ttl, nonce |-> inv.nonce, merkleId |-> inv.merkleId,
             payer |-> "mallory", gatewayPubkey |-> toB64(PublicKeyOf(claimed)),
             ts |-> inv.ts, sig |-> Undefined]
    IN  [receipt EXCEPT !.sig = signGateway(messageFromReceipt(receipt), ForeignKey)]

Forged ==
    {Forge(inv, claimed) :
        inv \in {i \in InvoicesFor(Features, {"n1"}) : i.ttl = 1},
        claimed \in {ForeignKey, GatewayKey}}

\* the receipts a caller may present
Presentable == Issued \cup UNION {Tampered(r) : r \in Issued} \cup Forged

\* index.js:122-126 and 144-148: Buffer.from(receipt.gatewayPubkey, 'base64')
\* raises on an absent field, then verifyGateway runs
checkSignature(receipt) ==
    IF ~CanDecode(receipt.gatewayPubkey) THEN "throw"
    ELSE verifyGateway(messageFromReceipt(receipt), receipt.sig,
                       fromB64(receipt.gatewayPubkey))

VerifyResponse(status, ok, error, hasReceipt, receipt, replayProtected) ==
    [op |-> "verify", status |-> status, ok |-> ok, error |-> error,
     hasReceipt |-> hasReceipt, receipt |-> receipt,
     replayProtected |-> replayProtected]

\* the handler with the replay-protected flag made a gate: a receipt whose
\* nonce the ledger holds is refused
VerifyAnswerGated(ledger, hasReceipt, receipt) ==
    LET signed == checkSignature(receipt)
        Answer(status, ok, error, replayProtected) ==
            VerifyResponse(status, ok, error, hasReceipt, receipt, replayProtected)
    IN  IF ~hasReceipt THEN Answer(400, FALSE, "missing-receipt", FALSE)
        ELSE IF ~isFresh(receipt.ts, receipt.ttl) THEN Answer(200, FALSE, "expired", FALSE)
        ELSE IF signed = "throw" THEN Answer(500, FALSE, "server-error", FALSE)
        ELSE IF signed # "true" THEN Answer(200, FALSE, "bad-sig", FALSE)
        ELSE IF seenNonceIn(ledger, receipt.nonce) THEN Answer(200, FALSE, "consumed", TRUE)
        ELSE Answer(200, TRUE, "", FALSE)

\* what POST /api/verify answers (index.js:117-134) when usedNonces is ledger
VerifyAnswer(ledger, hasReceipt, receipt) ==
    LET signed == checkSignature(receipt)
        Answer(status, ok, error, replayProtected) ==
            VerifyResponse(status, ok, error, hasReceipt, receipt, replayProtected)
    IN  IF ~hasReceipt THEN Answer(400, FALSE, "missing-receipt", FALSE)
        ELSE IF ~isFresh(receipt.ts, receipt.ttl) THEN Answer(200, FALSE, "expired", FALSE)
        ELSE IF signed = "throw" THEN Answer(500, FALSE, "server-error", FALSE)
        ELSE IF signed # "true" THEN Answer(200, FALSE, "bad-sig", FALSE)
        ELSE Answer(200, TRUE, "", seenNonceIn(ledger, receipt.nonce))

\* POST /api/verify (index.js:116-135)
Verify(hasReceipt, receipt) ==
    /\ Idle
    /\ UNCHANGED <<now, usedNonces, receipts, inflight, issued>>
    /\ last' = VerifyAnswer(usedNonces, hasReceipt, receipt)

VerifyRequest ==
    \/ Verify(FALSE, NoReceipt)
    \/ \E receipt \in Presentable : Verify(TRUE, receipt)

\* the x402-receipt header: absent, or text that JSON.parse turns into an
\* object ("object"), into null ("null"), or rejects ("garbage")
Headers ==
    {[present |-> FALSE, json |-> "garbage", receipt |-> NoReceipt],
     [present |-> TRUE, json |-> "garbage", receipt |-> NoReceipt],
     [present |-> TRUE, json |-> "null", receipt |-> NoReceipt]}
    \cup {[present |-> TRUE, json |-> "object", receipt |-> r] : r \in Presentable}

TranslateResponse(status, error, hdr) ==
    [op |-> "translate", status |-> status, error |-> error, header |-> hdr,
     receipt |-> hdr.receipt]

\* GET /api/translate (index.js:137-156); reading a field of null raises
\* inside the try, as JSON.parse does on text that is not JSON
Translate(hdr) ==
    /\ Idle
    /\ UNCHANGED <<now, usedNonces, receipts, inflight, issued>>
    /\ LET Answer(status, error) == last' = TranslateResponse(status, error, hdr)
           receipt == hdr.receipt
           signed == checkSignature(receipt)
       IN  IF ~hdr.present THEN Answer(402, "missing-x402-receipt")
           ELSE IF hdr.json # "object" THEN Answer(400, "bad-receipt-json")
           ELSE IF ~isFresh(receipt.ts, receipt.ttl) THEN Answer(402, "expired")
           ELSE IF signed = "throw" THEN Answer(400, "bad-receipt-json")
           ELSE IF signed # "true" THEN Answer(401, "bad-sig")
           ELSE IF receipt.feature # "api.translate" THEN Answer(403, "wrong-feature")
           ELSE Answer(200, "")

TranslateRequest == \E hdr \in Headers : Translate(hdr)

\* GET /api/receipts (index.js:114)
ListReceipts ==
    /\ Idle
    /\ last' = [op |-> "receipts", status |-> 200, error |-> "", items |-> receipts]
    /\ UNCHANGED <<now, usedNonces, receipts, inflight, issued>>

----------------------------------------------------------------------------
(* The settlement service: settle requests arriving while others are
   suspended at their await *)

Next ==
    \/ Tick
    \/ Respond
    \/ SettleRequest
    \/ SettleContinue

Spec == Init /\ [][Next]_vars

(* The settlement service when callers send one settle request at a time *)

SerialSettleRequest ==
    /\ inflight = <<>>
    /\ SettleRequests(MaxSettles, InvoicesFor({"api.translate"}, Nonces))

NextSerial ==
    \/ Tick
    \/ Respond
    \/ SerialSettleRequest
    \/ SettleContinue

SpecSerial == Init /\ [][NextSerial]_vars

(* The gateway with its receipt verifier and its resource guard: callers
   settle invoices for either feature and present receipts *)

SettleForReceipt == SettleRequests(MaxIssuedReceipts, InvoicesFor(Features, {"n1"}))

NextReceipt ==
    \/ Tick
    \/ Respond
    \/ SettleForReceipt
    \/ SettleContinue
    \/ VerifyRequest
    \/ TranslateRequest

SpecReceipt == Init /\ [][NextReceipt]_vars

(* The invoice issuer *)

NextInvoice ==
    \/ Tick
    \/ Respond
    \/ InvoiceRequest

SpecInvoice == Init /\ [][NextInvoice]_vars

(* The whole gateway: invoices are issued, settled as issued or altered,
   and receipts are verified, listed and presented to the resource guard *)

\* request bodies of POST /api/invoice: a ttl of 1, the rest defaulted
GatewayBodies ==
    [feature : {AbsentText}, amount : {AbsentText}, unit : {AbsentText},
     ttlSec : {Given(1)}, wallet : {AbsentText}]

\* makeNonce() returns a value not handed out before; which one is
\* immaterial, so the gateway hands them out in this order
IssueOrder == <<"n1", "n2", "n3">>

NextNonce == IssueOrder[Len(issued) + 1]

GatewayInvoiceRequest ==
    /\ Len(issued) < MaxGatewayInvoices
    /\ Len(issued) < Len(IssueOrder)
    /\ NextNonce \in FreshNonces
    /\ \E body \in GatewayBodies : Invoice(body, NextNonce, "m1")

GatewaySettleRequest ==
    SettleRequests(MaxGatewaySettles, InvoicesFor({"api.translate"}, {"n1"}))

\* receipts presented by their holders: as issued, or none
GatewayVerifyRequest ==
    \/ Verify(FALSE, NoReceipt)
    \/ \E receipt \in Issued : Verify(TRUE, receipt)

GatewayTranslateRequest ==
    \E hdr \in {h \in Headers : h.receipt \in Issued \cup {NoReceipt}} : Translate(hdr)

NextGateway ==
    \/ Tick
    \/ Respond
    \/ GatewayInvoiceRequest
    \/ GatewaySettleRequest
    \/ SettleContinue
    \/ GatewayVerifyRequest
    \/ GatewayTranslateRequest
    \/ ListReceipts

SpecGateway == Init /\ [][NextGateway]_vars

(* The settlement service and the receipt verifier: settle requests
   overlap at their awaits and holders verify the receipts as issued *)

FlagSettleRequest ==
    SettleRequests(MaxFlagSettles, InvoicesFor({"api.translate"}, {"n1"}))

NextFlag ==
    \/ Tick
    \/ Respond
    \/ FlagSettleRequest
    \/ SettleContinue
    \/ GatewayVerifyRequest

SpecFlag == Init /\ [][NextFlag]_vars

(* The canonical message as a function of caller-supplied fields: settle
   and verify derive it from whatever invoice or receipt the caller sends *)

MessageInvoices ==
    [feature : {"a", "a|b"}, amount : {"c", "b|c"}, unit : {"SOL", "ETH"},
     ttl : {1}, nonce : Nonces, merkleId : {"m1"}, ts : IssueTimes]

InitMessage ==
    /\ now = 0
    /\ usedNonces = [n \in {} |-> 0]
    /\ receipts = <<>>
    /\ inflight = <<>>
    /\ issued = <<>>
    /\ last \in [op : {"canonical"}, status : {0}, error : {""},
                 invoice : MessageInvoices, other : MessageInvoices,
                 messages : {<<>>}]

\* index.js:71 and 123: the message of each of the two
Canonicalise ==
    /\ last.messages = <<>>
    /\ last' = [last EXCEPT !.messages =
                    <<messageFromInvoice(last.invoice), messageFromInvoice(last.other)>>]
    /\ UNCHANGED <<now, usedNonces, receipts, inflight, issued>>

NextMessage == Canonicalise

SpecMessage == InitMessage /\ [][NextMessage]_vars

(* The settle handler under every shape of wallet proof: each kind with a
   well-formed, missing or garbage account and signature *)

\* account strings: a base58 key, no account, text that is not base58
SolanaAccounts == {"alice", "", "not-base58"}

\* account strings: an address, no account
EvmAccounts == {"0xab", ""}

AnyProofs(inv) ==
    LET m == messageFromInvoice(inv) IN
    [kind : {"solana"}, account : SolanaAccounts,
     signature : {toB64(NaclSign(m, "alice")), Garbage, Undefined}]
    \cup
    [kind : {"evm"}, account : EvmAccounts,
     signature : {toB64([len |-> 65, key |-> "0xAB", msg |-> m]),
                  toB64([len |-> 65, key |-> "0xAB", msg |-> "other"]),
                  Garbage, Undefined}]
    \cup
    [kind : {"btc", ""}, account : {"alice"},
     signature : {toB64(NaclSign(m, "alice"))}]

ProofRequest ==
    \E invoice \in InvoicesFor({"api.translate"}, {"n1"}) :
    \E walletProof \in AnyProofs(invoice) :
        Settle(MaxProofSettles, TRUE, TRUE, invoice, walletProof)

NextProof ==
    \/ Tick
    \/ Respond
    \/ ProofRequest
    \/ SettleContinue

SpecProof == Init /\ [][NextProof]_vars

(* The receipt archive on its own: rememberReceipt called once per
   successful settle, each time with the receipt of a new nonce; last.recorded
   keeps every receipt ever recorded, oldest first *)

InitArchive ==
    /\ now = 0
    /\ usedNonces = [n \in {} |-> 0]
    /\ receipts = <<>>
    /\ inflight = <<>>
    /\ issued = <<>>
    /\ last = [op |-> "remember", status |-> 0, error |-> "", recorded |-> <<>>]

\* the receipt of the k-th successful settle
NthReceipt(k) ==
    LET invoice == [feature |-> "api.translate", amount |-> "0.01", unit |-> "SOL",
                    ttl |-> 1, nonce |-> "n" \o ToString(k), merkleId |-> "m1",
                    ts |-> 0]
    IN  MakeReceipt(invoice,
                    [kind |-> "solana", account |-> "alice",
                     signature |-> toB64(NaclSign(messageFromInvoice(invoice), "alice"))])

\* index.js:106: rememberReceipt(receipt)
Remember ==
    LET r == NthReceipt(Len(last.recorded) + 1) IN
    /\ Len(last.recorded) < MaxRemembered
    /\ receipts' = rememberReceipt(receipts, r)
    /\ last' = [last EXCEPT !.recorded = Append(@, r)]
    /\ UNCHANGED <<now, usedNonces, inflight, issued>>

NextArchive == Remember

SpecArchive == InitArchive /\ [][NextArchive]_vars

(* The nonce ledger on its own: cleanupNonces applied to any ledger at any
   time; last keeps the ledger and the answers of seenNonce from just
   before the call *)

LedgerNonces == {"n1", "n2", "n3"}

\* the Maps markNonce can build: any of the nonces, each with an expiry
Ledgers ==
    UNION {[held -> 0 .. MaxExpiry] : held \in SUBSET LedgerNonces}

InitLedger ==
    /\ now \in 0 .. MaxTime
    /\ usedNonces \in Ledgers
    /\ receipts = <<>>
    /\ inflight = <<>>
    /\ issued = <<>>
    /\ last = [op |-> "ledger", status |-> 0, error |-> ""]

\* index.js:91: cleanupNonces()
Cleanup ==
    /\ last.op = "ledger"
    /\ usedNonces' = cleanupNonces(usedNonces)
    /\ last' = [op |-> "cleanup", status |-> 0, error |-> "",
                ledger |-> usedNonces,
                seen |-> [n \in LedgerNonces |-> seenNonce(n)]]
    /\ UNCHANGED <<now, receipts, inflight, issued>>

NextLedger == Cleanup

SpecLedger == InitLedger /\ [][NextLedger]_vars

----------------------------------------------------------------------------
(* Properties of settlement *)

SettleAnswered == last.op = "settle" /\ last.hasInvoice /\ last.hasProof

Accepted == SettleAnswered /\ last.status = 200

Expiry(inv) == inv.ts + inv.ttl

ProofIsValid == verifyProof(messageFromInvoice(last.invoice), last.walletProof)

\* C1: replay protection: over any sequence of settle calls, with the clock
\* advancing arbitrarily between them, at most one call carrying a given
\* nonce succeeds: no two returned receipts carry the same nonce.
NonceSettledOnce ==
    \A i, j \in 1 .. Len(receipts) :
        receipts[i].nonce = receipts[j].nonce => i = j

\* C2: once settle has succeeded for an invoice, every later settle call
\* with the identical invoice and any wallet proof fails with replay (with
\* expired only when the freshness check, which comes first, rejects it).
LaterSettleIsReplay ==
    (SettleAnswered /\ last.late) =>
        \/ last.error = "replay"
        \/ last.error = "expired" /\ last.turn = "call" /\ now > Expiry(last.invoice)

\* C3: the replay check and markNonce are atomic for one invoice: of two
\* settle requests for the same invoice in flight at once, never do both
\* pass the replay check and both return a receipt.
NoDoubleSettlement == ~(Accepted /\ last.overtaken)

\* C4: a settle call with invoice and walletProof present fails with
\* expired exactly when it arrives later than invoice.ts + invoice.ttl,
\* whatever the proof and the ledger; at ts + ttl the invoice is fresh.
ExpiredAfterTtl ==
    [][ /\ (SettleAnswered' /\ last'.turn = "call") =>
              (last'.error = "expired" <=> now > Expiry(last'.invoice))
        /\ Len(inflight') > Len(inflight) =>
              now <= Expiry(inflight'[Len(inflight')].invoice) ]_vars

\* C4 witness: an expired answer to a request whose proof was correctly
\* signed and whose nonce the ledger does not hold
ExpiredDespiteValidProof ==
    /\ SettleAnswered /\ last.error = "expired"
    /\ ProofIsValid
    /\ ~seenNonce(last.invoice.nonce)
    /\ now = Expiry(last.invoice) + 1

SettleFailed == last.op = "settle" /\ last.status # 200

\* C12: a settle call that fails with missing-body, expired, replay or
\* bad-wallet-proof leaves the nonce ledger and the receipt archive exactly
\* as they were and returns no receipt; the ledger and the archive change
\* only in a step that answers a successful settlement, which archives the
\* receipt it returns.
FailedSettleChangesNothing ==
    [][ /\ SettleFailed' =>
              /\ last'.error \in {"missing-body", "expired", "replay", "bad-wallet-proof"}
              /\ usedNonces' = usedNonces
              /\ receipts' = receipts
              /\ last'.receipt = <<>>
        /\ (usedNonces' # usedNonces \/ receipts' # receipts) =>
              /\ last'.op = "settle" /\ last'.status = 200
              /\ last'.receipt = <<receipts'[1]>>
              /\ DOMAIN usedNonces' \ DOMAIN usedNonces \subseteq {last'.invoice.nonce} ]_vars

\* C12 witness: a proof rejected after the await while the ledger holds a
\* live record and the archive a receipt
RejectedBesideRecords ==
    /\ SettleFailed /\ last.error = "bad-wallet-proof" /\ last.turn = "resume"
    /\ receipts # <<>>
    /\ \E n \in DOMAIN usedNonces : seenNonce(n)

\* the receipt a successful settle returned copies the invoice, names the
\* proof's account as payer and the gateway's key, and heads the archive
ReturnedReceiptIsFaithful ==
    LET r == last.receipt[1] IN
    /\ Len(last.receipt) = 1
    /\ r.feature = last.invoice.feature /\ r.amount = last.invoice.amount
    /\ r.unit = last.invoice.unit /\ r.ttl = last.invoice.ttl
    /\ r.nonce = last.invoice.nonce /\ r.merkleId = last.invoice.merkleId
    /\ r.ts = last.invoice.ts
    /\ r.payer = last.walletProof.account
    /\ r.gatewayPubkey = gatewayPubB64
    /\ receipts # <<>> /\ receipts[1] = r

\* the ledger holds nonce with the given expiry
Recorded(nonce, expireAt) ==
    nonce \in DOMAIN usedNonces /\ usedNonces[nonce] = expireAt

\* C13 as stated: when a successful settle returns, the ledger holds
\* invoice.nonce with expiry invoice.ts + invoice.ttl, and the returned
\* receipt copies the invoice, has payer = walletProof.account and the
\* gateway's public key, and is the first element of the archive.
SettleRecordsNonce ==
    Accepted =>
        /\ Recorded(last.invoice.nonce, Expiry(last.invoice))
        /\ ReturnedReceiptIsFaithful

\* C13 amended: the same, except that when the clock has passed
\* invoice.ts + invoice.ttl by the time the handler resumes, the
\* cleanupNonces call that ends the settlement has already removed the
\* record it just wrote.
SettleRecordsLiveNonce ==
    Accepted =>
        /\ IF now <= Expiry(last.invoice)
           THEN Recorded(last.invoice.nonce, Expiry(last.invoice))
           ELSE last.invoice.nonce \notin DOMAIN usedNonces
        /\ ReturnedReceiptIsFaithful

\* C13 witness: a second settlement returns; its receipt goes in front of
\* the first one and its nonce is recorded beside the first one's
SecondSettlementRecorded ==
    /\ Accepted
    /\ Recorded(last.invoice.nonce, Expiry(last.invoice))
    /\ Len(receipts) = 2 /\ receipts[1] = last.receipt[1]
    /\ receipts[2].nonce # last.invoice.nonce
    /\ receipts[2].nonce \in DOMAIN usedNonces

\* the proof names no supported kind, or its account or its signature is
\* missing, undecodable or of the wrong size
BadProof(p) ==
    \/ p.kind \notin {"solana", "evm"}
    \/ p.account = ""
    \/ p.kind = "solana" /\ p.account \notin Base58Accounts
    \/ ~CanDecode(p.signature)
    \/ fromB64(p.signature).len # (IF p.kind = "evm" THEN 65 ELSE 64)

\* the request passed the freshness and replay checks: it was suspended at
\* its await, or it is answered in a state where both pass
PassedReplayCheck ==
    \/ last.turn = "resume"
    \/ isFresh(last.invoice.ts, last.invoice.ttl) /\ ~seenNonce(last.invoice.nonce)

\* C14: wallet-proof verification never raises and never defaults: a settle
\* call with a present, fresh, unseen invoice whose proof has an
\* unsupported kind, or a missing, undecodable or garbage account or
\* signature, is answered 401 bad-wallet-proof, never server-error and
\* never a receipt.
BadProofIsRejected ==
    (SettleAnswered /\ PassedReplayCheck /\ BadProof(last.walletProof))
    => /\ last.status = 401 /\ last.error = "bad-wallet-proof"
       /\ last.receipt = <<>>

\* C14 witness: a solana proof without a signature rejected after its
\* await, nothing archived
SignaturelessProofRejected ==
    /\ SettleAnswered /\ last.turn = "resume"
    /\ last.walletProof.kind = "solana" /\ last.walletProof.account = "alice"
    /\ ~CanDecode(last.walletProof.signature)
    /\ last.error = "bad-wallet-proof"
    /\ receipts = <<>>

----------------------------------------------------------------------------
(* Properties of receipts *)

VerifyAnswered == last.op = "verify" /\ last.hasReceipt

GuardAnswered == last.op = "translate"

ReceiptAccepted ==
    \/ VerifyAnswered /\ last.ok
    \/ GuardAnswered /\ last.status = 200

\* C5: every receipt that /api/verify answers ok for, and every receipt the
\* protected resource is served for, carries a signature made with the
\* gateway's own signing key over that receipt.
AcceptedIsGatewaySigned ==
    ReceiptAccepted =>
        /\ CanDecode(last.receipt.sig)
        /\ fromB64(last.receipt.sig) =
               NaclSign(messageFromReceipt(last.receipt), GatewayKey)

SignedByClaim == {"feature", "amount", "nonce", "ts", "payer"}

\* C6: a receipt settle produced, with the value of one of feature, amount,
\* nonce, ts, payer changed and sig as issued, fails verification with
\* bad-sig (with expired only where the freshness check, which runs first,
\* rejects the changed receipt).
TamperedIsBadSig ==
    (/\ VerifyAnswered
     /\ \E r \in Issued : \E f \in SignedByClaim : last.receipt \in Rewrites(r, f) \ {r})
    => \/ last.error = "bad-sig"
       \/ last.error = "expired" /\ now > last.receipt.ts + last.receipt.ttl

\* C7: verifyReceipt on an unmodified receipt that settle returned, no later
\* than receipt.ts + receipt.ttl, answers ok: true.
IssuedReceiptVerifies ==
    (VerifyAnswered /\ last.receipt \in Issued
        /\ now <= last.receipt.ts + last.receipt.ttl)
    => last.ok /\ last.status = 200 /\ last.error = ""

\* C7 witness: an issued receipt verified in the last second of its life
IssuedReceiptVerifiedAtDeadline ==
    /\ VerifyAnswered /\ last.receipt \in Issued /\ last.ok
    /\ now = last.receipt.ts + last.receipt.ttl

\* the issued receipts whose sig receipt r carries
IssuedWithSigOf(r) == {i \in Issued : i.sig = r.sig}

\* C19: a receipt's lifetime is bounded by the ts + ttl it was issued with:
\* once the time is later than that, neither /api/verify nor the resource
\* guard accepts the receipt, nor any receipt made from it by changing
\* fields while keeping the issued sig.
ReceiptLifetimeBounded ==
    (ReceiptAccepted /\ IssuedWithSigOf(last.receipt) # {})
    => \E i \in IssuedWithSigOf(last.receipt) : now <= i.ts + i.ttl

\* C20: within one process lifetime, whenever /api/verify answers ok: true
\* for an unmodified receipt that settle issued, the replayProtected flag it
\* reports is true.
VerifiedIsReplayProtected ==
    (VerifyAnswered /\ last.ok /\ last.receipt \in Issued) => last.replayProtected

\* the ledgers the verifier may find itself with
OtherLedgers ==
    UNION {[held -> 0 .. MaxExpiry] : held \in SUBSET Nonces}

\* C16: the replay-protected flag does not gate receipt verification: in two
\* states that differ only in the nonce ledger, verifyReceipt on the same
\* receipt at the same time answers the same ok and the same error (and
\* status); only replayProtected may differ.
LedgerDoesNotGateVerify ==
    last.op = "verify" =>
        \A ledger \in OtherLedgers :
            LET other == VerifyAnswer(ledger, last.hasReceipt, last.receipt) IN
            /\ other.ok = last.ok
            /\ other.error = last.error
            /\ other.status = last.status

\* C16 witness: an issued receipt answered ok with replayProtected true,
\* which another ledger would have answered with replayProtected false
FlagDependsOnLedger ==
    /\ VerifyAnswered /\ last.ok /\ last.replayProtected
    /\ last.receipt \in Issued
    /\ \E ledger \in OtherLedgers :
           ~VerifyAnswer(ledger, TRUE, last.receipt).replayProtected

\* the signature and the named key are well formed and the signature is one
\* by that key over the receipt's canonical message
SignatureValid(r) ==
    /\ CanDecode(r.sig) /\ fromB64(r.sig).len = 64
    /\ CanDecode(r.gatewayPubkey) /\ fromB64(r.gatewayPubkey).len = 32
    /\ fromB64(r.sig).key = fromB64(r.gatewayPubkey).key
    /\ fromB64(r.sig).msg = messageFromReceipt(r)

\* the outcome the ordered checks of the resource guard call for
GuardOutcome(hdr) ==
    IF ~hdr.present THEN <<402, "missing-x402-receipt">>
    ELSE IF hdr.json # "object" THEN <<400, "bad-receipt-json">>
    ELSE IF now - hdr.receipt.ts > hdr.receipt.ttl THEN <<402, "expired">>
    ELSE IF ~SignatureValid(hdr.receipt) THEN <<401, "bad-sig">>
    ELSE IF hdr.receipt.feature # "api.translate" THEN <<403, "wrong-feature">>
    ELSE <<200, "">>

\* C9: the protected resource is served only for a header that is present,
\* parses, is fresh, has a valid signature and has feature api.translate;
\* otherwise the first failing check, in that order, decides the outcome.
GuardFollowsCheckOrder ==
    GuardAnswered => <<last.status, last.error>> = GuardOutcome(last.header)

Malformed(b64, size) == ~CanDecode(b64) \/ fromB64(b64).len # size

\* C10: signature checking never raises: a fresh receipt whose sig or
\* gatewayPubkey is missing, of the wrong length or undecodable is answered
\* bad-sig by /api/verify (never server-error) and by the resource guard
\* (never bad-receipt-json).
MalformedIsBadSig ==
    (/\ VerifyAnswered \/ (GuardAnswered /\ last.header.json = "object")
     /\ now - last.receipt.ts <= last.receipt.ttl
     /\ Malformed(last.receipt.sig, 64) \/ Malformed(last.receipt.gatewayPubkey, 32))
    => last.error = "bad-sig"

----------------------------------------------------------------------------
(* Properties of the canonical message *)

SignedFields(inv) ==
    <<inv.feature, inv.amount, inv.unit, inv.nonce, inv.merkleId, inv.ts>>

\* C8: the canonical message is injective on the signed fields: invoices
\* that differ in feature, amount, unit, nonce, merkleId or ts have different
\* canonical messages, and a signature over one does not verify for the other.
CanonicalMessageInjective ==
    (/\ last.op = "canonical" /\ last.messages # <<>>
     /\ SignedFields(last.invoice) # SignedFields(last.other))
    => /\ last.messages[1] # last.messages[2]
       /\ NaclVerify(last.messages[2], NaclSign(last.messages[1], "alice"),
                     PublicKeyOf("alice")) # "true"

----------------------------------------------------------------------------
(* Properties of the receipt archive *)

\* C11: after any sequence of rememberReceipt calls the archive holds at
\* most 500 receipts, the most recently recorded receipt is first, the
\* archive is ordered most-recent-first, and past the bound it is the
\* oldest receipts that are gone: the archive is the last 500 recorded
\* receipts, newest first.
ArchiveIsNewestFirst ==
    last.op = "remember" =>
        LET n == Len(last.recorded) IN
        /\ Len(receipts) <= ArchiveCapacity
        /\ Len(receipts) = IF n < ArchiveCapacity THEN n ELSE ArchiveCapacity
        /\ \A i \in 1 .. Len(receipts) : receipts[i] = last.recorded[n - i + 1]

\* C11 witness: more receipts were recorded than the archive holds
ArchiveOverflowed ==
    /\ last.op = "remember"
    /\ Len(last.recorded) = ArchiveCapacity + 2
    /\ Len(receipts) = ArchiveCapacity
    /\ receipts[1] = last.recorded[ArchiveCapacity + 2]
    /\ receipts[ArchiveCapacity] = last.recorded[3]

----------------------------------------------------------------------------
(* Properties of the nonce ledger *)

\* C15: eviction is unobservable through seen: for every ledger, nonce and
\* current time seenNonce answers the same just before and just after
\* cleanupNonces(), and cleanupNonces removes exactly the entries whose
\* expiry is earlier than the current time, leaving the others as they were.
EvictionIsUnobservable ==
    last.op = "cleanup" =>
        /\ \A n \in LedgerNonces : seenNonce(n) = last.seen[n]
        /\ DOMAIN usedNonces = {n \in DOMAIN last.ledger : last.ledger[n] >= now}
        /\ \A n \in DOMAIN usedNonces : usedNonces[n] = last.ledger[n]

\* C15 witness: a cleanup that removed an expired entry and kept one that
\* expires this very second and is still seen
EvictedBesideLive ==
    /\ last.op = "cleanup"
    /\ \E n \in DOMAIN last.ledger : n \notin DOMAIN usedNonces
    /\ \E n \in DOMAIN usedNonces : usedNonces[n] = now /\ now > 0 /\ seenNonce(n)

----------------------------------------------------------------------------
(* Properties of the gateway as a whole *)

ReadOnlyOps == {"invoice", "verify", "receipts", "translate"}

\* C17: issuing an invoice, verifying a receipt, listing receipts and
\* accessing the protected resource leave the nonce ledger and the receipt
\* archive unchanged; only a successful settle modifies either.
OnlySettleWrites ==
    [][ /\ last'.op \in ReadOnlyOps =>
              usedNonces' = usedNonces /\ receipts' = receipts
        /\ (usedNonces' # usedNonces \/ receipts' # receipts) =>
              last'.op = "settle" /\ last'.status = 200 ]_vars

\* C17 witness: the archive listed, with a receipt in it and its nonce in
\* the ledger, after an invoice was issued
ListedBesideRecords ==
    /\ last.op = "receipts"
    /\ last.items = receipts /\ receipts # <<>>
    /\ receipts[1].nonce \in DOMAIN usedNonces
    /\ issued # <<>>

\* invoice inv is one the issuer produced, field for field
WasIssued(inv) ==
    \E i \in 1 .. Len(issued) :
        /\ issued[i].feature = inv.feature /\ issued[i].amount = inv.amount
        /\ issued[i].unit = inv.unit /\ issued[i].ttl = inv.ttl
        /\ issued[i].nonce = inv.nonce /\ issued[i].merkleId = inv.merkleId
        /\ issued[i].ts = inv.ts

\* C18: every invoice that settle accepts is one that POST /api/invoice
\* produced before, with feature, amount, unit, ttl, nonce, merkleId and ts
\* as issued; a fabricated or altered invoice is never settled.
SettledWasIssued == Accepted => WasIssued(last.invoice)

====
